---- MODULE Spec2Model ----
(***************************************************************************)
(* CU PathFinder: the campus graph (campus_graph.py) and the four search   *)
(* strategies with their comparison driver (search_algorithms.py).         *)
(*                                                                         *)
(* Distances are integers (metres).  The heuristic is a float in the       *)
(* source; here it is a fixed-point number with HScale units per metre,    *)
(* and every A* priority f = g + h is kept in those units.                 *)
(***************************************************************************)
EXTENDS Integers, Sequences, FiniteSets, TLC

VARIABLES nodes, edges, coordinates,      \* CampusGraph fields
          connections, ci,                \* locals of _add_campus_connections
          trace_enabled,                  \* SearchAlgorithms.trace_enabled
          pc, start, goal,                \* position of the driver, its arguments
          original_trace, idx, results,   \* locals of compare_algorithms
          frontier, visited,              \* locals of the running strategy
          exploration_order, nodes_explored, g_costs,
          threads,                        \* per thread: its call and the locals of that call
          query,                          \* the last graph query made and what it returned
          campus_graph,                   \* app.py: adjacency lists made by build_graph
          http,                           \* app.py: the pathfinding function that is running
          SAVED_PATHS, response           \* app.py: custom paths, status of the last request

vars == <<nodes, edges, coordinates, connections, ci, trace_enabled, pc, start, goal,
          original_trace, idx, results, frontier, visited,
          exploration_order, nodes_explored, g_costs, threads, query,
          campus_graph, http, SAVED_PATHS, response>>

graphVars == <<nodes, edges, coordinates, connections, ci>>

searchVars == <<trace_enabled, start, goal, original_trace, idx, results, frontier,
                visited, exploration_order, nodes_explored, g_costs>>

callerVars == <<threads, query>>

appVars == <<campus_graph, http, SAVED_PATHS, response>>

-----------------------------------------------------------------------------
(* Bounds of the generic graph family *)

MaxConns == 3          \* length of a connection list
MaxWeight == 3         \* largest edge weight

(* Representation choices for values of the source *)

Inf == 999999999       \* float('inf')
None == -1             \* Python None as a distance
HScale == 10           \* fixed-point units per metre for the heuristic

-----------------------------------------------------------------------------
(* Campus data, campus_graph.py *)

CampusCoordinates ==
  ("Entry Gate" :> <<296, 1724>>) @@
  ("Main Gate" :> <<379, 1458>>) @@
  ("Security Office" :> <<296, 1473>>) @@
  ("Flag Post" :> <<327, 1431>>) @@
  ("Library" :> <<388, 1393>>) @@
  ("Block A" :> <<353, 1384>>) @@
  ("Block B" :> <<349, 1223>>) @@
  ("Auditorium" :> <<353, 1384>>) @@
  ("Food Court" :> <<445, 829>>) @@
  ("Gym" :> <<445, 829>>) @@
  ("Badminton Court" :> <<445, 829>>) @@
  ("Boys Hostel" :> <<737, 820>>) @@
  ("Girls Hostel" :> <<807, 746>>) @@
  ("Mart" :> <<785, 779>>) @@
  ("Cricket Ground" :> <<157, 131>>) @@
  ("Football Ground" :> <<78, 371>>) @@
  ("Volleyball Court" :> <<567, 58>>) @@
  ("Basketball Court" :> <<371, 76>>) @@
  ("Tennis Court" :> <<567, 58>>) @@
  ("Guest House" :> <<126, 1263>>) @@
  ("Pottery Making Area" :> <<22, 1348>>) @@
  ("Faculty Apartment" :> <<514, 1121>>) @@
  ("DG Yard" :> <<680, 1229>>) @@
  ("Water Treatment Area" :> <<534, 822>>) @@
  ("Exit Gate" :> <<453, 1729>>) @@
  ("Playing Ground" :> <<83, 1602>>) @@
  ("Medical Center" :> <<445, 900>>) @@
  ("Admin Office" :> <<379, 1458>>) @@
  ("Student Center" :> <<353, 1300>>) @@
  ("Canteen" :> <<438, 1343>>)

CampusConnections ==
  << <<"Entry Gate", "Security Office", 180>>,
     <<"Security Office", "Main Gate", 70>>,
     <<"Main Gate", "Flag Post", 70>>,
     <<"Main Gate", "Block A", 80>>,
     <<"Main Gate", "Auditorium", 80>>,
     <<"Main Gate", "Library", 80>>,
     <<"Library", "Canteen", 50>>,
     <<"Block A", "Block B", 120>>,
     <<"Block B", "Food Court", 230>>,
     <<"Food Court", "Gym", 35>>,
     <<"Food Court", "Badminton Court", 45>>,
     <<"Food Court", "Boys Hostel", 260>>,
     <<"Food Court", "Girls Hostel", 345>>,
     <<"Boys Hostel", "Mart", 70>>,
     <<"Mart", "Girls Hostel", 70>>,
     <<"Boys Hostel", "Cricket Ground", 560>>,
     <<"Cricket Ground", "Football Ground", 100>>,
     <<"Cricket Ground", "Volleyball Court", 80>>,
     <<"Cricket Ground", "Basketball Court", 80>>,
     <<"Cricket Ground", "Tennis Court", 80>>,
     <<"Block A", "Guest House", 250>>,
     <<"Block A", "Pottery Making Area", 230>>,
     <<"Block B", "Guest House", 330>>,
     <<"Block B", "Faculty Apartment", 165>>,
     <<"Block A", "DG Yard", 350>>,
     <<"Block A", "Water Treatment Area", 503>>,
     <<"Block A", "Boys Hostel", 600>>,
     <<"Main Gate", "Exit Gate", 140>>,
     <<"Block A", "Student Center", 120>>,
     <<"Block B", "Student Center", 100>>,
     <<"Student Center", "Library", 90>>,
     <<"Food Court", "Medical Center", 75>>,
     <<"Medical Center", "Water Treatment Area", 80>>,
     <<"Admin Office", "Main Gate", 50>>,
     <<"Playing Ground", "Guest House", 150>>,
     <<"Entry Gate", "Playing Ground", 200>>,
     <<"Volleyball Court", "Basketball Court", 50>>,
     <<"Volleyball Court", "Tennis Court", 20>>,
     <<"Basketball Court", "Tennis Court", 40>>,
     <<"Boys Hostel", "Girls Hostel", 120>>,
     <<"Girls Hostel", "Mart", 50>>,
     <<"DG Yard", "Water Treatment Area", 200>>,
     <<"Water Treatment Area", "Food Court", 100>> >>

NodeOrder ==
  << "A",
     "Admin Office",
     "Auditorium",
     "B",
     "Badminton Court",
     "Basketball Court",
     "Block A",
     "Block B",
     "Boys Hostel",
     "C",
     "Canteen",
     "Cricket Ground",
     "D",
     "DG Yard",
     "Entry Gate",
     "Exit Gate",
     "Faculty Apartment",
     "Flag Post",
     "Food Court",
     "Football Ground",
     "Girls Hostel",
     "Guest House",
     "Gym",
     "Library",
     "Main Gate",
     "Mart",
     "Medical Center",
     "Playing Ground",
     "Pottery Making Area",
     "Security Office",
     "Student Center",
     "Tennis Court",
     "Volleyball Court",
     "Water Treatment Area",
     "Z" >>

(* Python's order on the node names used here (str.__lt__) *)
Rank == [n \in {NodeOrder[i] : i \in 1..Len(NodeOrder)} |->
           CHOOSE i \in 1..Len(NodeOrder) : NodeOrder[i] = n]

StrLess(a, b) == Rank[a] < Rank[b]

-----------------------------------------------------------------------------
(* Graph model *)

Abs(x) == IF x < 0 THEN -x ELSE x

RECURSIVE SqrtSearch(_, _, _)
SqrtSearch(n, lo, hi) ==
  IF lo >= hi THEN lo
  ELSE LET mid == (lo + hi + 1) \div 2
       IN  IF mid * mid <= n THEN SqrtSearch(n, mid, hi)
           ELSE SqrtSearch(n, lo, mid - 1)

(* math.sqrt, rounded down to the fixed-point grid *)
Sqrt(n) == SqrtSearch(n, 0, 46340)

(* d[k] = v on an insertion-ordered dict held as a sequence of <<key, value>> *)
DictSet(d, k, v) ==
  IF \E i \in 1..Len(d) : d[i][1] = k
  THEN LET i == CHOOSE j \in 1..Len(d) : d[j][1] = k
       IN  SubSeq(d, 1, i - 1) \o << <<k, v>> >> \o SubSeq(d, i + 1, Len(d))
  ELSE Append(d, <<k, v>>)

DictHas(d, k) == \E i \in 1..Len(d) : d[i][1] = k

DictGet(d, k) ==
  IF DictHas(d, k) THEN d[CHOOSE i \in 1..Len(d) : d[i][1] = k][2] ELSE None

AddConnection_OneWay(ns, e, node1, node2, distance) ==
  IF node1 \in ns /\ node2 \in ns
  THEN [e EXCEPT ![node1] = DictSet(@, node2, distance)]
  ELSE e

AddConnection_KnownSource(ns, e, node1, node2, distance) ==
  IF node1 \in ns
  THEN LET e1 == [e EXCEPT ![node1] = DictSet(@, node2, distance)]
       IN  IF node2 \in ns THEN [e1 EXCEPT ![node2] = DictSet(@, node1, distance)] ELSE e1
  ELSE e

(* one iteration of the loop that adds bidirectional edges *)
AddConnection(ns, e, node1, node2, distance) ==
  IF node1 \in ns /\ node2 \in ns
  THEN LET e1 == [e EXCEPT ![node1] = DictSet(@, node2, distance)]
       IN  [e1 EXCEPT ![node2] = DictSet(@, node1, distance)]
  ELSE e

GetNeighbors(node) == IF node \in DOMAIN edges THEN edges[node] ELSE <<>>

GetDistance_Zero(node1, node2) ==
  IF node1 \in DOMAIN edges /\ DictHas(edges[node1], node2)
  THEN DictGet(edges[node1], node2) ELSE 0

GetDistance(node1, node2) ==
  IF node1 \in DOMAIN edges THEN DictGet(edges[node1], node2) ELSE None

EuclideanDistance(node1, node2) ==
  IF node1 \notin DOMAIN coordinates \/ node2 \notin DOMAIN coordinates THEN Inf
  ELSE LET dx == (Abs(coordinates[node2][1] - coordinates[node1][1]) * 1000 * HScale) \div 824
           dy == (Abs(coordinates[node2][2] - coordinates[node1][2]) * 2000 * HScale) \div 1741
       IN  Sqrt(dx * dx + dy * dy)

IsValidNode(node) == node \in nodes

RECURSIVE PathDistanceFrom(_, _, _)
PathDistanceFrom(path, i, total_distance) ==
  IF i > Len(path) - 1 THEN total_distance
  ELSE LET distance == GetDistance(path[i], path[i + 1])
       IN  IF distance = None THEN Inf
           ELSE PathDistanceFrom(path, i + 1, total_distance + distance)

GetPathDistance_SkipFirst(path) ==
  IF Len(path) < 2 THEN 0 ELSE PathDistanceFrom(path, 2, 0)

GetPathDistance(path) ==
  IF Len(path) < 2 THEN 0 ELSE PathDistanceFrom(path, 1, 0)

-----------------------------------------------------------------------------
(* Search strategies *)

Algorithms == <<"BFS", "DFS", "UCS", "A*">>

NoNode == ""

SearchResult(path, cost, explored, order, algorithm, success) ==
  [path |-> path, cost |-> cost, nodes_explored |-> explored,
   exploration_order |-> order, algorithm |-> algorithm, success |-> success,
   num_nodes_explored |-> Cardinality({explored[i] : i \in 1..Len(explored)})]

Entry(node, path, cost, f) == [node |-> node, path |-> path, cost |-> cost, f |-> f]

Reverse_Identity(s) == s

Reverse(s) == [i \in 1..Len(s) |-> s[Len(s) + 1 - i]]

RemoveAt_Peek(s, i) == s

RemoveAt(s, i) == SubSeq(s, 1, i - 1) \o SubSeq(s, i + 1, Len(s))

(* list.__lt__ on lists of node names *)
RECURSIVE PathLessFrom(_, _, _)
PathLessFrom(p, q, i) ==
  IF i > Len(q) THEN FALSE
  ELSE IF i > Len(p) THEN TRUE
  ELSE IF p[i] # q[i] THEN StrLess(p[i], q[i])
  ELSE PathLessFrom(p, q, i + 1)

PathLess(p, q) == PathLessFrom(p, q, 1)

UCSLess_NodeFirst(a, b) ==
  \/ StrLess(a.node, b.node)
  \/ a.node = b.node /\ a.cost < b.cost
  \/ a.node = b.node /\ a.cost = b.cost /\ PathLess(a.path, b.path)

(* tuple order of the heap entries (cost, node, path) *)
UCSLess(a, b) ==
  \/ a.cost < b.cost
  \/ a.cost = b.cost /\ StrLess(a.node, b.node)
  \/ a.cost = b.cost /\ a.node = b.node /\ PathLess(a.path, b.path)

(* tuple order of the heap entries (f_cost, g_cost, node, path) *)
AStarLess(a, b) ==
  \/ a.f < b.f
  \/ a.f = b.f /\ UCSLess(a, b)

UCSMin_Fifo(q) == 1

UCSMin_Stable(q) ==
  CHOOSE i \in 1..Len(q) :
    \A j \in 1..Len(q) : q[i].cost <= q[j].cost /\ (j < i => q[j].cost # q[i].cost)

(* heapq.heappop: position of the smallest entry *)
UCSMin(q) == CHOOSE i \in 1..Len(q) : \A j \in 1..Len(q) : j # i => ~UCSLess(q[j], q[i])

AStarMin_First(q) == 1

AStarMin(q) == CHOOSE i \in 1..Len(q) : \A j \in 1..Len(q) : j # i => ~AStarLess(q[j], q[i])

Successors_NoAppend(nbrs, vis, path, cost) ==
  LET sel == SelectSeq(nbrs, LAMBDA p : p[1] \notin vis)
  IN  [i \in 1..Len(sel) |-> Entry(sel[i][1], path, cost + sel[i][2], 0)]

Successors_FirstOnly(nbrs, vis, path, cost) ==
  LET sel == SelectSeq(nbrs, LAMBDA p : p[1] \notin vis)
  IN  [i \in 1..(IF Len(sel) > 0 THEN 1 ELSE 0) |->
         Entry(sel[i][1], Append(path, sel[i][1]), cost + sel[i][2], 0)]

(* the entries a BFS / DFS expansion appends, in the order given *)
Successors(nbrs, vis, path, cost) ==
  LET sel == SelectSeq(nbrs, LAMBDA p : p[1] \notin vis)
  IN  [i \in 1..Len(sel) |->
         Entry(sel[i][1], Append(path, sel[i][1]), cost + sel[i][2], 0)]

UCSSuccessors_EdgeOnly(nbrs, vis, path, current_cost) ==
  Successors(nbrs, vis, path, 0)

(* the entries a UCS expansion pushes *)
UCSSuccessors(nbrs, vis, path, current_cost) ==
  Successors(nbrs, vis, path, current_cost)

(* the neighbour loop of A* towards goal_node: returns <<priority_queue, g_costs>> *)
RECURSIVE AStarNeighbors(_, _, _, _, _, _, _, _)
AStarNeighbors(nbrs, i, vis, path, g_cost, q, gc, goal_node) ==
  IF i > Len(nbrs) THEN <<q, gc>>
  ELSE LET neighbor == nbrs[i][1]
           new_g_cost == g_cost + nbrs[i][2]
       IN  IF neighbor \in vis
           THEN AStarNeighbors(nbrs, i + 1, vis, path, g_cost, q, gc, goal_node)
           ELSE IF neighbor \in DOMAIN gc /\ gc[neighbor] <= new_g_cost
           THEN AStarNeighbors(nbrs, i + 1, vis, path, g_cost, q, gc, goal_node)
           ELSE LET h_cost == EuclideanDistance(neighbor, goal_node)
                    f_cost == new_g_cost * HScale + h_cost
                IN  AStarNeighbors(nbrs, i + 1, vis, path, g_cost,
                      Append(q, Entry(neighbor, Append(path, neighbor), new_g_cost, f_cost)),
                      (neighbor :> new_g_cost) @@ gc, goal_node)

(* the neighbour loop of A* in the call the driver is running *)
AStarRelax(nbrs, i, vis, path, g_cost, q, gc) ==
  AStarNeighbors(nbrs, i, vis, path, g_cost, q, gc, goal)

-----------------------------------------------------------------------------
(* Driver: compare_algorithms runs the four strategies in turn *)

ClearLocals ==
  /\ frontier' = <<>>
  /\ visited' = {}
  /\ exploration_order' = <<>>
  /\ nodes_explored' = <<>>
  /\ g_costs' = <<>>

(* the loop over the connection list: one iteration, or the end of construction *)
AddCampusConnections ==
  /\ pc = "build"
  /\ IF ci <= Len(connections)
     THEN /\ edges' = AddConnection(nodes, edges, connections[ci][1], connections[ci][2],
                                    connections[ci][3])
          /\ ci' = ci + 1
          /\ UNCHANGED <<connections, pc>>
     ELSE /\ pc' = "idle"
          /\ connections' = <<>>
          /\ ci' = 1
          /\ UNCHANGED edges
  /\ UNCHANGED <<nodes, coordinates, searchVars, callerVars, appVars>>

(* a strategy returns r: results[name] = result, next iteration of the loop *)
Return(r) ==
  /\ results' = (Algorithms[idx] :> r) @@ results
  /\ IF idx < Len(Algorithms)
     THEN idx' = idx + 1 /\ pc' = "call"
     ELSE idx' = idx /\ pc' = "restore"
  /\ ClearLocals
  /\ UNCHANGED <<graphVars, callerVars, appVars, trace_enabled, start, goal, original_trace>>

CompareBegin(s, g) ==
  /\ pc = "idle"
  /\ start' = s
  /\ goal' = g
  /\ original_trace' = trace_enabled
  /\ trace_enabled' = FALSE
  /\ results' = <<>>
  /\ idx' = 1
  /\ pc' = "call"
  /\ UNCHANGED <<graphVars, callerVars, appVars, frontier, visited, exploration_order, nodes_explored, g_costs>>

CompareEnd ==
  /\ pc = "restore"
  /\ trace_enabled' = original_trace
  /\ pc' = "done"
  /\ UNCHANGED <<graphVars, callerVars, appVars, start, goal, original_trace, idx, results,
                 frontier, visited, exploration_order, nodes_explored, g_costs>>

InvalidResult_Explored(name) ==
  SearchResult(<<>>, 0, <<start>>, <<start>>, name, FALSE)

(* what a strategy returns when start or goal is not a node *)
InvalidResult(name) == SearchResult(<<>>, 0, <<>>, <<>>, name, FALSE)

SameNodeResult_NoTrace(name) ==
  SearchResult(<<start>>, 0, <<>>, <<>>, name, TRUE)

(* what a strategy returns when start == goal *)
SameNodeResult(name) ==
  SearchResult(<<start>>, 0, <<start>>, <<start>>, name, TRUE)

Call_SharedVisited ==
  /\ pc = "call"
  /\ LET name == Algorithms[idx]
     IN  IF ~IsValidNode(start) \/ ~IsValidNode(goal)
         THEN Return(InvalidResult(name))
         ELSE IF start = goal
         THEN Return(SameNodeResult(name))
         ELSE /\ frontier' = << Entry(start, <<start>>, 0,
                                  IF name = "A*" THEN EuclideanDistance(start, goal) ELSE 0) >>
              /\ visited' = {n \in nodes : \E a \in DOMAIN results :
                               \E k \in 1..Len(results[a].exploration_order) :
                                 results[a].exploration_order[k] = n}
              /\ exploration_order' = <<>>
              /\ nodes_explored' = <<>>
              /\ g_costs' = IF name = "A*" THEN (start :> 0) ELSE <<>>
              /\ pc' = "loop"
              /\ UNCHANGED <<graphVars, callerVars, appVars, trace_enabled, start, goal, original_trace,
                             idx, results>>

(* entry of a strategy: validation, start == goal, initial frontier *)
Call ==
  /\ pc = "call"
  /\ LET name == Algorithms[idx]
     IN  IF ~IsValidNode(start) \/ ~IsValidNode(goal)
         THEN Return(InvalidResult(name))
         ELSE IF start = goal
         THEN Return(SameNodeResult(name))
         ELSE /\ frontier' = << Entry(start, <<start>>, 0,
                                  IF name = "A*" THEN EuclideanDistance(start, goal) ELSE 0) >>
              /\ visited' = {}
              /\ exploration_order' = <<>>
              /\ nodes_explored' = <<>>
              /\ g_costs' = IF name = "A*" THEN (start :> 0) ELSE <<>>
              /\ pc' = "loop"
              /\ UNCHANGED <<graphVars, callerVars, appVars, trace_enabled, start, goal, original_trace,
                             idx, results>>

(* the frontier is exhausted: the strategy reports failure *)
ReturnFailure ==
  Return(SearchResult(<<>>, 0, nodes_explored, exploration_order, Algorithms[idx], FALSE))

Iterate_NoSkip(cur, rest, cost, expanded) ==
  LET order == Append(exploration_order, cur.node)
      explored == Append(nodes_explored, cur.node)
  IN  IF cur.node = goal
      THEN Return(SearchResult(cur.path, cost, explored, order, Algorithms[idx], TRUE))
      ELSE /\ frontier' = expanded[1]
           /\ g_costs' = expanded[2]
           /\ visited' = visited \cup {cur.node}
           /\ exploration_order' = order
           /\ nodes_explored' = explored
           /\ UNCHANGED <<graphVars, callerVars, appVars, trace_enabled, pc, start, goal,
                          original_trace, idx, results>>

Iterate_Consume(cur, rest, cost, expanded) ==
  IF cur.node \in visited
  THEN /\ frontier' = rest
       /\ UNCHANGED <<graphVars, callerVars, appVars, trace_enabled, pc, start, goal, original_trace, idx,
                      results, visited, exploration_order, nodes_explored, g_costs>>
  ELSE LET order == Append(exploration_order, cur.node)
           explored == Append(nodes_explored, cur.node)
       IN  IF cur.node = goal
           THEN Return(SearchResult(cur.path, cost, explored, order, Algorithms[idx], TRUE))
           ELSE /\ frontier' = expanded[1]
                /\ g_costs' = expanded[2]
                /\ visited' = visited \cup {cur.node}
                /\ exploration_order' = order
                /\ nodes_explored' = explored
                /\ edges' = [edges EXCEPT ![cur.node] = <<>>]
                /\ UNCHANGED <<nodes, coordinates, connections, ci, callerVars, appVars, trace_enabled,
                               pc, start, goal, original_trace, idx, results>>

Iterate_GoalFirst(cur, rest, cost, expanded) ==
  IF cur.node \in visited
  THEN /\ frontier' = rest
       /\ UNCHANGED <<graphVars, callerVars, appVars, trace_enabled, pc, start, goal, original_trace, idx,
                      results, visited, exploration_order, nodes_explored, g_costs>>
  ELSE IF cur.node = goal
       THEN Return(SearchResult(cur.path, cost, nodes_explored, exploration_order,
                                Algorithms[idx], TRUE))
       ELSE /\ frontier' = expanded[1]
            /\ g_costs' = expanded[2]
            /\ visited' = visited \cup {cur.node}
            /\ exploration_order' = Append(exploration_order, cur.node)
            /\ nodes_explored' = Append(nodes_explored, cur.node)
            /\ UNCHANGED <<graphVars, callerVars, appVars, trace_enabled, pc, start, goal,
                           original_trace, idx, results>>

(* one iteration of `while frontier` with the popped entry cur and the
   frontier rest left by the pop; expanded is <<frontier, g_costs>> after
   the neighbour loop, cost the cost reported if cur is the goal *)
Iterate(cur, rest, cost, expanded) ==
  IF cur.node \in visited
  THEN /\ frontier' = rest
       /\ UNCHANGED <<graphVars, callerVars, appVars, trace_enabled, pc, start, goal, original_trace, idx,
                      results, visited, exploration_order, nodes_explored, g_costs>>
  ELSE LET order == Append(exploration_order, cur.node)
           explored == Append(nodes_explored, cur.node)
       IN  IF cur.node = goal
           THEN Return(SearchResult(cur.path, cost, explored, order, Algorithms[idx], TRUE))
           ELSE /\ frontier' = expanded[1]
                /\ g_costs' = expanded[2]
                /\ visited' = visited \cup {cur.node}
                /\ exploration_order' = order
                /\ nodes_explored' = explored
                /\ UNCHANGED <<graphVars, callerVars, appVars, trace_enabled, pc, start, goal,
                               original_trace, idx, results>>

BFSStep_Stack ==
  /\ pc = "loop" /\ Algorithms[idx] = "BFS"
  /\ IF frontier = <<>> THEN ReturnFailure
     ELSE
     LET cur == frontier[Len(frontier)]
         rest == SubSeq(frontier, 1, Len(frontier) - 1)
         vis == visited \cup {cur.node}
     IN  Iterate(cur, rest, GetPathDistance(cur.path),
                 <<rest \o Successors(GetNeighbors(cur.node), vis, cur.path, cur.cost),
                   g_costs>>)

BFSStep ==
  /\ pc = "loop" /\ Algorithms[idx] = "BFS"
  /\ IF frontier = <<>> THEN ReturnFailure
     ELSE
     LET cur == Head(frontier)
         rest == Tail(frontier)
         vis == visited \cup {cur.node}
     IN  Iterate(cur, rest, GetPathDistance(cur.path),
                 <<rest \o Successors(GetNeighbors(cur.node), vis, cur.path, cur.cost),
                   g_costs>>)

DFSStep ==
  /\ pc = "loop" /\ Algorithms[idx] = "DFS"
  /\ IF frontier = <<>> THEN ReturnFailure
     ELSE
     LET cur == frontier[Len(frontier)]
         rest == SubSeq(frontier, 1, Len(frontier) - 1)
         vis == visited \cup {cur.node}
     IN  Iterate(cur, rest, GetPathDistance(cur.path),
                 <<rest \o Successors(Reverse(GetNeighbors(cur.node)), vis, cur.path, cur.cost),
                   g_costs>>)

UCSStep ==
  /\ pc = "loop" /\ Algorithms[idx] = "UCS"
  /\ IF frontier = <<>> THEN ReturnFailure
     ELSE
     LET i == UCSMin(frontier)
         cur == frontier[i]
         rest == RemoveAt(frontier, i)
         vis == visited \cup {cur.node}
     IN  Iterate(cur, rest, cur.cost,
                 <<rest \o UCSSuccessors(GetNeighbors(cur.node), vis, cur.path, cur.cost),
                   g_costs>>)

AStarStep ==
  /\ pc = "loop" /\ Algorithms[idx] = "A*"
  /\ IF frontier = <<>> THEN ReturnFailure
     ELSE
     LET i == AStarMin(frontier)
         cur == frontier[i]
         rest == RemoveAt(frontier, i)
         vis == visited \cup {cur.node}
     IN  Iterate(cur, rest, cur.cost,
                 AStarRelax(GetNeighbors(cur.node), 1, vis, cur.path, cur.cost, rest, g_costs))

-----------------------------------------------------------------------------
(* A strategy as a function of its own locals: the frame of one call *)

EmptyLocal ==
  [frontier |-> <<>>, visited |-> {}, exploration_order |-> <<>>,
   nodes_explored |-> <<>>, g_costs |-> <<>>]

StartLocal_StaleVisited(name, s, g) ==
  [frontier |-> << Entry(s, <<s>>, 0, IF name = "A*" THEN EuclideanDistance(s, g) ELSE 0) >>,
   visited |-> {n \in nodes : \E t \in DOMAIN threads :
                  /\ threads[t].first # <<>>
                  /\ name \in DOMAIN threads[t].first[1]
                  /\ \E k \in 1..Len(threads[t].first[1][name].exploration_order) :
                        threads[t].first[1][name].exploration_order[k] = n},
   exploration_order |-> <<>>, nodes_explored |-> <<>>,
   g_costs |-> IF name = "A*" THEN (s :> 0) ELSE <<>>]

(* the locals a strategy sets up before its loop *)
StartLocal(name, s, g) ==
  [frontier |-> << Entry(s, <<s>>, 0, IF name = "A*" THEN EuclideanDistance(s, g) ELSE 0) >>,
   visited |-> {}, exploration_order |-> <<>>, nodes_explored |-> <<>>,
   g_costs |-> IF name = "A*" THEN (s :> 0) ELSE <<>>]

(* what a strategy returns before its loop, as a sequence of zero or one results *)
EntryResult(name, s, g) ==
  IF ~IsValidNode(s) \/ ~IsValidNode(g) THEN << InvalidResult(name) >>
  ELSE IF s = g THEN << SearchResult(<<s>>, 0, <<s>>, <<s>>, name, TRUE) >>
  ELSE <<>>

(* popleft, pop, heappop: the position of the entry taken from the frontier *)
PopIndex(name, q) ==
  CASE name = "BFS" -> 1
    [] name = "DFS" -> Len(q)
    [] name = "UCS" -> UCSMin(q)
    [] name = "A*" -> AStarMin(q)

(* the neighbour loop of each strategy: <<frontier, g_costs>> after it *)
Expand(name, cur, rest, vis, gc, g) ==
  CASE name = "BFS" ->
         <<rest \o Successors(GetNeighbors(cur.node), vis, cur.path, cur.cost), gc>>
    [] name = "DFS" ->
         <<rest \o Successors(Reverse(GetNeighbors(cur.node)), vis, cur.path, cur.cost), gc>>
    [] name = "UCS" ->
         <<rest \o UCSSuccessors(GetNeighbors(cur.node), vis, cur.path, cur.cost), gc>>
    [] name = "A*" ->
         AStarNeighbors(GetNeighbors(cur.node), 1, vis, cur.path, cur.cost, rest, gc, g)

(* one iteration of `while frontier` on the locals L of a call with goal g:
   result holds the SearchResult if the call returns in this iteration *)
LoopIteration(name, L, g) ==
  IF L.frontier = <<>>
  THEN [result |-> << SearchResult(<<>>, 0, L.nodes_explored, L.exploration_order,
                                   name, FALSE) >>,
        local |-> L]
  ELSE LET i == PopIndex(name, L.frontier)
           cur == L.frontier[i]
           rest == RemoveAt(L.frontier, i)
           order == Append(L.exploration_order, cur.node)
           explored == Append(L.nodes_explored, cur.node)
           vis == L.visited \cup {cur.node}
           cost == IF name \in {"BFS", "DFS"} THEN GetPathDistance(cur.path) ELSE cur.cost
       IN  IF cur.node \in L.visited
           THEN [result |-> <<>>, local |-> [L EXCEPT !.frontier = rest]]
           ELSE IF cur.node = g
           THEN [result |-> << SearchResult(cur.path, cost, explored, order, name, TRUE) >>,
                 local |-> L]
           ELSE LET expanded == Expand(name, cur, rest, vis, L.g_costs, g)
                IN  [result |-> <<>>,
                     local |-> [frontier |-> expanded[1], visited |-> vis,
                                exploration_order |-> order, nodes_explored |-> explored,
                                g_costs |-> expanded[2]]]

RECURSIVE RunLoop(_, _, _)
RunLoop(name, L, g) ==
  LET it == LoopIteration(name, L, g)
  IN  IF it.result # <<>> THEN it.result[1] ELSE RunLoop(name, it.local, g)

(* the result of one call of strategy name, made with nothing else running *)
CallAlone(name, s, g) ==
  IF EntryResult(name, s, g) # <<>> THEN EntryResult(name, s, g)[1]
  ELSE RunLoop(name, StartLocal(name, s, g), g)

-----------------------------------------------------------------------------
(* Threads: callers that share one CampusGraph and one SearchAlgorithms *)

Threads == {"t1", "t2"}

IdleThread ==
  [pc |-> "idle", compare |-> FALSE, program |-> <<>>, todo |-> <<>>,
   start |-> NoNode, goal |-> NoNode, original_trace |-> TRUE,
   results |-> <<>>, first |-> <<>>, local |-> EmptyLocal]

ThreadLocal_Shared(t) == threads["t1"].local

(* the locals of the call thread t is in *)
ThreadLocal(t) == threads[t].local

(* thread t calls one strategy *)
ThreadSearch(t, name, s, g) ==
  /\ pc = "idle"
  /\ threads[t].pc = "idle"
  /\ threads' = [threads EXCEPT ![t] =
                   [IdleThread EXCEPT !.pc = "call", !.program = <<name>>, !.todo = <<name>>,
                                      !.start = s, !.goal = g]]
  /\ UNCHANGED <<graphVars, searchVars, pc, query, appVars>>

(* thread t enters compare_algorithms: original_trace = self.trace_enabled *)
ThreadCompareBegin(t, s, g) ==
  /\ pc = "idle"
  /\ threads[t].pc = "idle"
  /\ threads' = [threads EXCEPT ![t] =
                   [IdleThread EXCEPT !.pc = "disable", !.compare = TRUE,
                                      !.program = Algorithms, !.todo = Algorithms,
                                      !.start = s, !.goal = g,
                                      !.original_trace = trace_enabled]]
  /\ UNCHANGED <<graphVars, searchVars, pc, query, appVars>>

(* self.trace_enabled = False *)
ThreadDisableTrace(t) ==
  /\ threads[t].pc = "disable"
  /\ trace_enabled' = FALSE
  /\ threads' = [threads EXCEPT ![t].pc = "call"]
  /\ UNCHANGED <<graphVars, appVars, pc, start, goal, original_trace, idx, results, frontier,
                 visited, exploration_order, nodes_explored, g_costs, query>>

(* the record of a thread whose current strategy returned r *)
Returned(T, r) ==
  [T EXCEPT !.results = (Head(T.todo) :> r) @@ @,
            !.todo = Tail(@),
            !.local = EmptyLocal,
            !.pc = IF Tail(T.todo) # <<>> THEN "call"
                   ELSE IF T.compare THEN "restore" ELSE "done"]

(* entry of the strategy thread t runs next *)
ThreadCall(t) ==
  /\ threads[t].pc = "call"
  /\ LET T == threads[t]
         name == Head(T.todo)
         early == EntryResult(name, T.start, T.goal)
     IN  threads' = [threads EXCEPT ![t] =
                       IF early # <<>> THEN Returned(T, early[1])
                       ELSE [T EXCEPT !.pc = "loop",
                                      !.local = StartLocal(name, T.start, T.goal)]]
  /\ UNCHANGED <<graphVars, searchVars, pc, query, appVars>>

(* one loop iteration of the strategy thread t is in *)
ThreadStep(t) ==
  /\ threads[t].pc = "loop"
  /\ LET T == threads[t]
         it == LoopIteration(Head(T.todo), ThreadLocal(t), T.goal)
     IN  threads' = [threads EXCEPT ![t] =
                       IF it.result # <<>> THEN Returned(T, it.result[1])
                       ELSE [T EXCEPT !.local = it.local]]
  /\ UNCHANGED <<graphVars, searchVars, pc, query, appVars>>

(* self.trace_enabled = original_trace; return results *)
ThreadCompareEnd(t) ==
  /\ threads[t].pc = "restore"
  /\ trace_enabled' = threads[t].original_trace
  /\ threads' = [threads EXCEPT ![t].pc = "done"]
  /\ UNCHANGED <<graphVars, appVars, pc, start, goal, original_trace, idx, results, frontier,
                 visited, exploration_order, nodes_explored, g_costs, query>>

(* thread t makes the call it has just finished a second time *)
ThreadRepeat(t) ==
  /\ threads[t].pc = "done"
  /\ ~threads[t].compare
  /\ threads[t].first = <<>>
  /\ threads' = [threads EXCEPT ![t] =
                   [@ EXCEPT !.pc = "call", !.todo = threads[t].program,
                             !.first = << threads[t].results >>, !.results = <<>>]]
  /\ UNCHANGED <<graphVars, searchVars, pc, query, appVars>>

-----------------------------------------------------------------------------
(* Graph queries made by a caller while no search is running *)

NoQuery == [op |-> "", args |-> <<>>, value |-> <<>>]

Asked(op, args, value) ==
  /\ pc = "idle"
  /\ query = NoQuery
  /\ query' = [op |-> op, args |-> args, value |-> value]
  /\ UNCHANGED <<graphVars, searchVars, pc, threads, appVars>>

QueryNeighbors(node) == Asked("get_neighbors", <<node>>, GetNeighbors(node))

QueryDistance(node1, node2) == Asked("get_distance", <<node1, node2>>, GetDistance(node1, node2))

QueryValidNode(node) == Asked("is_valid_node", <<node>>, IsValidNode(node))

QueryPathDistance(path) == Asked("get_path_distance", <<path>>, GetPathDistance(path))

-----------------------------------------------------------------------------
(* The HTTP layer (app.py): its own adjacency lists and pathfinding functions *)

IdleHttp ==
  [pc |-> "idle", algorithm |-> "", start |-> NoNode, goal |-> NoNode,
   frontier |-> <<>>, visited |-> {}, steps |-> <<>>, result |-> <<>>]

(* the loop of build_graph over the connections, from connection i on *)
RECURSIVE BuildGraphFrom(_, _, _)
BuildGraphFrom(graph, conns, i) ==
  IF i > Len(conns) THEN graph
  ELSE LET source == conns[i][1]
           dest == conns[i][2]
           distance == conns[i][3]
       IN  IF source \in DOMAIN graph /\ dest \in DOMAIN graph
           THEN LET g1 == [graph EXCEPT ![source] = Append(@, <<dest, distance>>)]
                IN  BuildGraphFrom([g1 EXCEPT ![dest] = Append(@, <<source, distance>>)],
                                   conns, i + 1)
           ELSE BuildGraphFrom(graph, conns, i + 1)

(* campus_graph = build_graph(), from the connection list the CampusGraph is
   about to be constructed from *)
BuildGraph ==
  /\ pc = "build" /\ ci = 1
  /\ campus_graph = <<>>
  /\ campus_graph' = BuildGraphFrom([n \in nodes |-> <<>>], connections, 1)
  /\ UNCHANGED <<graphVars, searchVars, pc, callerVars, http, SAVED_PATHS, response>>

(* graph.get(current, []) *)
GraphGet(node) == IF node \in DOMAIN campus_graph THEN campus_graph[node] ELSE <<>>

HttpResult(found, path, cost) == [found |-> found, path |-> path, cost |-> cost]

(* bfs_pathfinding / dfs_pathfinding up to the loop *)
Pathfinding(algorithm, s, g) ==
  /\ pc = "idle"
  /\ campus_graph # <<>>
  /\ http.pc = "idle"
  /\ http' = IF s = g
             THEN [IdleHttp EXCEPT !.pc = "done", !.algorithm = algorithm,
                                   !.start = s, !.goal = g,
                                   !.result = << HttpResult(TRUE, <<s>>, 0) >>]
             ELSE [IdleHttp EXCEPT !.pc = "loop", !.algorithm = algorithm,
                                   !.start = s, !.goal = g,
                                   !.frontier = << Entry(s, <<s>>, 0, 0) >>,
                                   !.visited = IF algorithm = "BFS" THEN {s} ELSE {}]
  /\ UNCHANGED <<graphVars, searchVars, pc, callerVars, campus_graph, SAVED_PATHS, response>>

(* the neighbour loop of bfs_pathfinding from neighbour i on: queue, visited
   and, once the goal is discovered, the entry returned *)
RECURSIVE BfsNeighbors(_, _, _, _, _, _)
BfsNeighbors(nbrs, i, cur, queue, vis, g) ==
  IF i > Len(nbrs) THEN [queue |-> queue, visited |-> vis, found |-> <<>>]
  ELSE LET neighbor == nbrs[i][1]
           new == Entry(neighbor, Append(cur.path, neighbor), cur.cost + nbrs[i][2], 0)
       IN  IF neighbor \in vis THEN BfsNeighbors(nbrs, i + 1, cur, queue, vis, g)
           ELSE IF neighbor = g
           THEN [queue |-> queue, visited |-> vis \cup {neighbor}, found |-> <<new>>]
           ELSE BfsNeighbors(nbrs, i + 1, cur, Append(queue, new), vis \cup {neighbor}, g)

BfsPathfindingStep_Stack ==
  /\ http.pc = "loop" /\ http.algorithm = "BFS"
  /\ IF http.frontier = <<>>
     THEN http' = [http EXCEPT !.pc = "done", !.result = << HttpResult(FALSE, <<>>, Inf) >>]
     ELSE LET cur == http.frontier[Len(http.frontier)]
              after == BfsNeighbors(GraphGet(cur.node), 1, cur,
                                    SubSeq(http.frontier, 1, Len(http.frontier) - 1),
                                    http.visited, http.goal)
          IN  http' = IF after.found # <<>>
                      THEN [http EXCEPT !.pc = "done",
                                        !.steps = Append(@, cur.node),
                                        !.frontier = <<>>, !.visited = {},
                                        !.result = << HttpResult(TRUE, after.found[1].path,
                                                                 after.found[1].cost) >>]
                      ELSE [http EXCEPT !.steps = Append(@, cur.node),
                                        !.frontier = after.queue,
                                        !.visited = after.visited]
  /\ UNCHANGED <<graphVars, searchVars, pc, callerVars, campus_graph, SAVED_PATHS, response>>

(* one iteration of `while queue` of bfs_pathfinding *)
BfsPathfindingStep ==
  /\ http.pc = "loop" /\ http.algorithm = "BFS"
  /\ IF http.frontier = <<>>
     THEN http' = [http EXCEPT !.pc = "done", !.result = << HttpResult(FALSE, <<>>, Inf) >>]
     ELSE LET cur == Head(http.frontier)
              after == BfsNeighbors(GraphGet(cur.node), 1, cur, Tail(http.frontier),
                                    http.visited, http.goal)
          IN  http' = IF after.found # <<>>
                      THEN [http EXCEPT !.pc = "done",
                                        !.steps = Append(@, cur.node),
                                        !.frontier = <<>>, !.visited = {},
                                        !.result = << HttpResult(TRUE, after.found[1].path,
                                                                 after.found[1].cost) >>]
                      ELSE [http EXCEPT !.steps = Append(@, cur.node),
                                        !.frontier = after.queue,
                                        !.visited = after.visited]
  /\ UNCHANGED <<graphVars, searchVars, pc, callerVars, campus_graph, SAVED_PATHS, response>>

(* the entries dfs_pathfinding appends for the neighbours not yet visited *)
DfsNeighbors(nbrs, cur, vis) ==
  LET sel == SelectSeq(nbrs, LAMBDA p : p[1] \notin vis)
  IN  [i \in 1..Len(sel) |->
         Entry(sel[i][1], Append(cur.path, sel[i][1]), cur.cost + sel[i][2], 0)]

(* one iteration of `while stack` of dfs_pathfinding *)
DfsPathfindingStep ==
  /\ http.pc = "loop" /\ http.algorithm = "DFS"
  /\ IF http.frontier = <<>>
     THEN http' = [http EXCEPT !.pc = "done", !.result = << HttpResult(FALSE, <<>>, Inf) >>]
     ELSE LET cur == http.frontier[Len(http.frontier)]
              rest == SubSeq(http.frontier, 1, Len(http.frontier) - 1)
              vis == http.visited \cup {cur.node}
          IN  http' = IF cur.node \in http.visited
                      THEN [http EXCEPT !.frontier = rest]
                      ELSE IF cur.node = http.goal
                      THEN [http EXCEPT !.pc = "done",
                                        !.steps = Append(@, cur.node),
                                        !.frontier = <<>>, !.visited = {},
                                        !.result = << HttpResult(TRUE, cur.path, cur.cost) >>]
                      ELSE [http EXCEPT !.steps = Append(@, cur.node),
                                        !.visited = vis,
                                        !.frontier = rest \o DfsNeighbors(GraphGet(cur.node), cur, vis)]
  /\ UNCHANGED <<graphVars, searchVars, pc, callerVars, campus_graph, SAVED_PATHS, response>>

-----------------------------------------------------------------------------
(* Custom path storage of the HTTP layer: SAVED_PATHS, a dict keyed by name.
   The created_at / updated_at timestamps are clock readings and are left
   out; `updated` tells whether the path carries an updated_at key. *)

(* request.json of a save or update request: description is <<>> when the
   key is absent, coordinates is <<>> when absent or empty *)
PathData(name, coords, description) ==
  [name |-> name, coordinates |-> coords, description |-> description]

(* SAVED_PATHS.pop(k) *)
DictPop(d, k) == SelectSeq(d, LAMBDA kv : kv[1] # k)

(* the dict d with the value stored under the present key k replaced by v *)
DictReplace(d, k, v) == [i \in 1..Len(d) |-> IF d[i][1] = k THEN <<k, v>> ELSE d[i]]

(* POST /api/save-path *)
SaveCustomPath(data) ==
  /\ IF data.name = "" \/ data.coordinates = <<>>
     THEN /\ response' = 400
          /\ UNCHANGED SAVED_PATHS
     ELSE LET custom_path ==
                [id |-> Len(SAVED_PATHS) + 1,
                 name |-> data.name,
                 coordinates |-> data.coordinates,
                 description |-> IF data.description = <<>> THEN "" ELSE data.description[1],
                 coordinate_count |-> Len(data.coordinates),
                 updated |-> FALSE]
          IN  /\ SAVED_PATHS' = DictSet(SAVED_PATHS, data.name, custom_path)
              /\ response' = 201
  /\ UNCHANGED <<graphVars, searchVars, pc, callerVars, campus_graph, http>>

(* DELETE /api/delete-path/<path_name> *)
DeletePath(path_name) ==
  /\ IF DictHas(SAVED_PATHS, path_name)
     THEN /\ SAVED_PATHS' = DictPop(SAVED_PATHS, path_name)
          /\ response' = 200
     ELSE /\ response' = 404
          /\ UNCHANGED SAVED_PATHS
  /\ UNCHANGED <<graphVars, searchVars, pc, callerVars, campus_graph, http>>

(* PUT /api/update-path/<path_name> *)
UpdatePath(path_name, data) ==
  /\ IF ~DictHas(SAVED_PATHS, path_name)
     THEN /\ response' = 404
          /\ UNCHANGED SAVED_PATHS
     ELSE LET old == DictGet(SAVED_PATHS, path_name)
              p1 == IF data.coordinates # <<>>
                    THEN [old EXCEPT !.coordinates = data.coordinates,
                                     !.coordinate_count = Len(data.coordinates)]
                    ELSE old
              p2 == IF data.description # <<>>
                    THEN [p1 EXCEPT !.description = data.description[1]]
                    ELSE p1
          IN  /\ SAVED_PATHS' = DictReplace(SAVED_PATHS, path_name, [p2 EXCEPT !.updated = TRUE])
              /\ response' = 200
  /\ UNCHANGED <<graphVars, searchVars, pc, callerVars, campus_graph, http>>

Next ==
  \/ AddCampusConnections
  \/ \E s \in nodes \cup {"Z"}, g \in nodes \cup {"Z"} : CompareBegin(s, g)
  \/ Call
  \/ BFSStep
  \/ DFSStep
  \/ UCSStep
  \/ AStarStep
  \/ CompareEnd

-----------------------------------------------------------------------------
(* Generic graphs: four nodes, a bounded connection list, two layouts *)

GenericNodes == {"A", "B", "C", "D"}

Weights == {0, 1, MaxWeight}

Connections == {<<p[1], p[2], w>> : p \in {<<"A", "B">>, <<"B", "C">>, <<"A", "C">>}, w \in Weights}

ConnectionLists == UNION {[1..k -> Connections] : k \in 0..MaxConns}

(* the literal scenario of the specification *)
ScenarioConnections ==
  << <<"A", "B", 10>>, <<"B", "C", 10>>, <<"A", "C", 5>>, <<"C", "D", 5>> >>

Layouts ==
  { [n \in GenericNodes |-> <<0, 0>>],
    ("A" :> <<0, 0>>) @@ ("B" :> <<2, 0>>) @@ ("C" :> <<4, 0>>) @@ ("D" :> <<8, 0>>) }

InitDriver ==
  /\ trace_enabled = TRUE
  /\ pc = "build"
  /\ ci = 1
  /\ start = NoNode
  /\ goal = NoNode
  /\ original_trace = TRUE
  /\ idx = 1
  /\ results = <<>>
  /\ frontier = <<>>
  /\ visited = {}
  /\ exploration_order = <<>>
  /\ nodes_explored = <<>>
  /\ g_costs = <<>>
  /\ threads = [t \in Threads |-> IdleThread]
  /\ query = NoQuery
  /\ campus_graph = <<>>
  /\ http = IdleHttp
  /\ SAVED_PATHS = <<>>
  /\ response = 0

Init ==
  /\ coordinates \in Layouts
  /\ nodes = DOMAIN coordinates
  /\ edges = [n \in nodes |-> <<>>]
  /\ connections \in ConnectionLists \cup {ScenarioConnections}
  /\ InitDriver

Spec == Init /\ [][Next]_vars

(* The campus as constructed by CampusGraph() *)
InitCampus ==
  /\ coordinates = CampusCoordinates
  /\ nodes = DOMAIN coordinates
  /\ edges = [n \in nodes |-> <<>>]
  /\ connections = CampusConnections
  /\ InitDriver

SpecCampus == InitCampus /\ [][Next]_vars

(* A call, once made, runs to completion: the strategies are synchronous *)
Run == Call \/ BFSStep \/ DFSStep \/ UCSStep \/ AStarStep \/ CompareEnd

FairSpec == Init /\ [][Next]_vars /\ WF_vars(Run)

-----------------------------------------------------------------------------
(* Construction alone, over lists that repeat pairs, loop, and name the
   unknown node Z *)

BuildConnections ==
  {<<a, b, w>> : a \in {"A", "B", "Z"}, b \in {"A", "B", "Z"}, w \in {1, MaxWeight}}

BuildConnectionLists == UNION {[1..k -> BuildConnections] : k \in 0..MaxConns}

InitBuild ==
  /\ coordinates = [n \in GenericNodes |-> <<0, 0>>]
  /\ nodes = DOMAIN coordinates
  /\ edges = [n \in nodes |-> <<>>]
  /\ connections \in BuildConnectionLists
  /\ InitDriver

SpecBuild == InitBuild /\ [][AddCampusConnections]_vars

-----------------------------------------------------------------------------
(* Graph queries next to the driver *)

MaxPathLen == 3        \* length of a path handed to get_path_distance

QueryNodes == nodes \cup {"Z"}

Paths == UNION {[1..k -> QueryNodes] : k \in 0..MaxPathLen}

(* one question per run, asked of the constructed graph *)
NextQuery ==
  \/ query = NoQuery /\ Next
  \/ \E node \in QueryNodes : QueryNeighbors(node)
  \/ \E node1 \in QueryNodes, node2 \in QueryNodes : QueryDistance(node1, node2)
  \/ \E node \in QueryNodes : QueryValidNode(node)
  \/ \E path \in Paths : QueryPathDistance(path)

SpecQuery == Init /\ [][NextQuery]_vars

-----------------------------------------------------------------------------
(* Two threads on one graph, each making a single strategy call (which it
   may repeat once) or a compare_algorithms call *)

ThreadConnectionLists ==
  { ScenarioConnections,
    << <<"A", "C", 1>>, <<"A", "B", 1>>, <<"B", "C", 0>> >> }

ThreadQueries == {<<"A", "D">>, <<"D", "B">>, <<"B", "B">>, <<"A", "Z">>}

InitThreads ==
  /\ coordinates = ("A" :> <<0, 0>>) @@ ("B" :> <<2, 0>>) @@ ("C" :> <<4, 0>>) @@ ("D" :> <<8, 0>>)
  /\ nodes = DOMAIN coordinates
  /\ edges = [n \in nodes |-> <<>>]
  /\ connections \in ThreadConnectionLists
  /\ InitDriver

NextThreads ==
  \/ AddCampusConnections
  \/ \E t \in Threads, i \in 1..Len(Algorithms), q \in ThreadQueries :
        ThreadSearch(t, Algorithms[i], q[1], q[2])
  \/ \E t \in Threads, q \in ThreadQueries : ThreadCompareBegin(t, q[1], q[2])
  \/ \E t \in Threads : ThreadDisableTrace(t)
  \/ \E t \in Threads : ThreadCall(t)
  \/ \E t \in Threads : ThreadStep(t)
  \/ \E t \in Threads : ThreadCompareEnd(t)
  \/ \E t \in Threads : ThreadRepeat(t)

SpecThreads == InitThreads /\ [][NextThreads]_vars

-----------------------------------------------------------------------------
(* The two layers on graphs made from one connection list *)

HttpConnections ==
  {<<p[1], p[2], 1>> : p \in {<<"A", "B">>, <<"B", "C">>, <<"A", "C">>,
                               <<"C", "D">>, <<"B", "D">>, <<"D", "A">>}}

MaxHttpConns == 4      \* length of a connection list handed to both layers

HttpConnectionLists ==
  UNION {[1..k -> HttpConnections] : k \in 0..MaxHttpConns} \cup {ScenarioConnections}

InitHttp ==
  /\ coordinates = [n \in GenericNodes |-> <<0, 0>>]
  /\ nodes = DOMAIN coordinates
  /\ edges = [n \in nodes |-> <<>>]
  /\ connections \in HttpConnectionLists
  /\ InitDriver

NextHttp ==
  \/ BuildGraph
  \/ AddCampusConnections
  \/ \E s \in nodes \cup {"Z"}, g \in nodes \cup {"Z"} : Pathfinding("BFS", s, g)
  \/ \E s \in nodes \cup {"Z"}, g \in nodes \cup {"Z"} : Pathfinding("DFS", s, g)
  \/ BfsPathfindingStep
  \/ DfsPathfindingStep

SpecHttp == InitHttp /\ [][NextHttp]_vars

-----------------------------------------------------------------------------
(* Save, update and delete requests on the custom path storage *)

PathNames == {"", "p", "q"}

PathCoordinates == { <<>>, << <<0, 0>> >>, << <<0, 0>>, <<1, 1>> >> }

PathDescriptions == { <<>>, <<"d">> }

PathRequests ==
  {PathData(n, c, d) : n \in PathNames, c \in PathCoordinates, d \in PathDescriptions}

InitPaths ==
  /\ coordinates = [n \in GenericNodes |-> <<0, 0>>]
  /\ nodes = DOMAIN coordinates
  /\ edges = [n \in nodes |-> <<>>]
  /\ connections = ScenarioConnections
  /\ InitDriver

NextPaths ==
  \/ \E data \in PathRequests : SaveCustomPath(data)
  \/ \E n \in PathNames, data \in PathRequests : UpdatePath(n, data)
  \/ \E n \in PathNames : DeletePath(n)

SpecPaths == InitPaths /\ [][NextPaths]_vars

-----------------------------------------------------------------------------
(* Reference notions the properties are stated against *)

NeighborSet(n) == {edges[n][i][1] : i \in 1..Len(edges[n])}

RECURSIVE Grow(_)
Grow(S) ==
  LET T == S \cup UNION {NeighborSet(n) : n \in S}
  IN  IF T = S THEN S ELSE Grow(T)

(* the connected component of s *)
Component(s) == Grow({s})

SetMin(S) == CHOOSE x \in S : \A y \in S : x <= y

RECURSIVE Relax(_, _)
Relax(d, k) ==
  IF k = 0 THEN d
  ELSE Relax([n \in nodes |->
                SetMin({d[n]} \cup {d[edges[n][i][1]] + edges[n][i][2] :
                                     i \in {j \in 1..Len(edges[n]) : d[edges[n][j][1]] # Inf}})],
             k - 1)

(* least cost of a path from s to each node, Inf when there is none *)
ShortestCost(s) == Relax([n \in nodes |-> IF n = s THEN 0 ELSE Inf], Cardinality(nodes))

ValidQuery == start \in nodes /\ goal \in nodes

Elements(s) == {s[i] : i \in 1..Len(s)}

ScenarioEdges ==
  ("A" :> << <<"B", 10>>, <<"C", 5>> >>) @@
  ("B" :> << <<"A", 10>>, <<"C", 10>> >>) @@
  ("C" :> << <<"B", 10>>, <<"A", 5>>, <<"D", 5>> >>) @@
  ("D" :> << <<"C", 5>> >>)

-----------------------------------------------------------------------------
(* C1: every successful result has a path that starts at start, ends at
   goal, and whose consecutive nodes are joined by an edge of the graph. *)
C1_PathIsRoute ==
  \A a \in DOMAIN results :
    results[a].success =>
      LET p == results[a].path
      IN  /\ Len(p) >= 1
          /\ p[1] = start
          /\ p[Len(p)] = goal
          /\ \A i \in 1..(Len(p) - 1) : GetDistance(p[i], p[i + 1]) # None

C1_Witness ==
  /\ pc = "done"
  /\ \A a \in DOMAIN results : results[a].success /\ Len(results[a].path) >= 2
  /\ \E a \in DOMAIN results : Len(results[a].path) >= 3

(* C2: the cost of every successful result equals get_path_distance of its
   path, also for UCS and A*, which return the cost they accumulated. *)
C2_CostIsPathDistance ==
  \A a \in DOMAIN results :
    results[a].success => results[a].cost = GetPathDistance(results[a].path)

C2_Witness ==
  /\ pc = "done"
  /\ results["UCS"].success /\ Len(results["UCS"].path) >= 3 /\ results["UCS"].cost > 0
  /\ results["A*"].success /\ Len(results["A*"].path) >= 3 /\ results["A*"].cost > 0

(* C3: for a reachable goal UCS succeeds with the least cost of any path from
   start to goal, hence at most the cost BFS and DFS return; on the literal
   scenario UCS(A, D) is [A, C, D] with cost 10. *)
C3_UCSIsOptimal ==
  ("UCS" \in DOMAIN results /\ ValidQuery /\ goal \in Component(start)) =>
    /\ results["UCS"].success
    /\ results["UCS"].cost = ShortestCost(start)[goal]
    /\ results["UCS"].cost <= results["BFS"].cost
    /\ results["UCS"].cost <= results["DFS"].cost
    /\ (edges = ScenarioEdges /\ start = "A" /\ goal = "D") =>
         results["UCS"].path = <<"A", "C", "D">> /\ results["UCS"].cost = 10

C3_Witness ==
  /\ pc = "done"
  /\ results["UCS"].success
  /\ results["UCS"].cost < results["BFS"].cost
  /\ results["UCS"].cost < results["DFS"].cost

(* C4: on the campus as constructed, A* returns the cost UCS returns. *)
C4_AStarCostIsUCSCost ==
  ({"UCS", "A*"} \subseteq DOMAIN results) =>
    /\ results["A*"].success = results["UCS"].success
    /\ results["A*"].cost = results["UCS"].cost

(* C5: the campus heuristic is admissible: it never exceeds the weight of an
   edge between the two nodes, nor the least cost of a path between them
   (the cost UCS returns for the pair). *)
C5_HeuristicAdmissible ==
  /\ \A a \in nodes : \A i \in 1..Len(edges[a]) :
       EuclideanDistance(a, edges[a][i][1]) <= edges[a][i][2] * HScale
  /\ ("UCS" \in DOMAIN results /\ results["UCS"].success) =>
       EuclideanDistance(start, goal) <= results["UCS"].cost * HScale

(* C6: a valid goal that cannot be reached from start gives success = false,
   an empty path and infinite cost. *)
C6_UnreachableIsInfinite ==
  \A a \in DOMAIN results :
    (ValidQuery /\ goal \notin Component(start)) =>
      /\ ~results[a].success
      /\ results[a].path = <<>>
      /\ results[a].cost = Inf

C8_SameNodeIsTrivial ==
  \A a \in DOMAIN results :
    (ValidQuery /\ start = goal) =>
      /\ results[a].success
      /\ results[a].path = <<start>>
      /\ results[a].cost = 0
      /\ results[a].exploration_order = <<start>>
      /\ results[a].nodes_explored = <<start>>
      /\ results[a].num_nodes_explored = 1
      /\ results[a].algorithm = a

C8_Witness ==
  /\ pc = "done"
  /\ start \in nodes /\ start = goal
  /\ Len(edges[start]) >= 2
  /\ DOMAIN results = {"BFS", "DFS", "UCS", "A*"}

(* C9: when the goal is a valid node outside the component of start, the
   nodes of the exploration trace are exactly the component of start. *)
C9_TraceIsComponent ==
  \A a \in DOMAIN results :
    (ValidQuery /\ goal \notin Component(start)) =>
      Elements(results[a].exploration_order) = Component(start)

C9_Witness ==
  /\ pc = "done"
  /\ ValidQuery /\ goal \notin Component(start)
  /\ Cardinality(Component(start)) >= 3
  /\ "BFS" \in DOMAIN results /\ Len(results["BFS"].exploration_order) >= 3

(* C10: every strategy that enters its loop leaves it by returning, on every
   graph of the family, whether or not the goal can be reached. *)
C10_Terminates == (pc = "loop") ~> (pc # "loop")

C10_Witness ==
  /\ pc = "done"
  /\ ValidQuery /\ goal \notin Component(start)
  /\ \A n \in Component(start) : Len(edges[n]) >= 2
  /\ Cardinality(Component(start)) >= 3
  /\ \A a \in DOMAIN results : ~results[a].success

SameOutcome(r1, r2) ==
  /\ r1.path = r2.path
  /\ r1.cost = r2.cost
  /\ r1.success = r2.success
  /\ r1.exploration_order = r2.exploration_order

(* C11: whatever the interleaving of the calls two threads make on the same
   graph and the same SearchAlgorithms, single strategies or
   compare_algorithms, every result returned has the path, cost, success flag
   and exploration order the strategy returns when it runs alone. *)
C11_InterleavedEqualsAlone ==
  \A t \in Threads : \A name \in DOMAIN threads[t].results :
    SameOutcome(threads[t].results[name],
                CallAlone(name, threads[t].start, threads[t].goal))

C11_Witness ==
  /\ \A t \in Threads : /\ threads[t].pc = "loop"
                         /\ threads[t].results # <<>>
                         /\ Len(threads[t].local.exploration_order) >= 2
  /\ threads["t1"].goal # threads["t2"].goal
  /\ \E t \in Threads : \E name \in DOMAIN threads[t].results :
        threads[t].results[name].success /\ Len(threads[t].results[name].path) >= 3

(* C12: a thread that makes the same strategy call a second time, on the same
   graph with the same (start, goal), gets the path, cost, success flag and
   exploration order of the first call, whatever the other thread ran
   meanwhile. *)
C12_RepeatIsIdentical ==
  \A t \in Threads :
    threads[t].first # <<>> =>
      \A name \in DOMAIN threads[t].results :
        SameOutcome(threads[t].results[name], threads[t].first[1][name])

C12_Witness ==
  /\ threads["t1"].first # <<>>
  /\ threads["t1"].pc = "done"
  /\ \E name \in DOMAIN threads["t1"].results :
        /\ threads["t1"].results[name].success
        /\ Len(threads["t1"].results[name].exploration_order) >= 3
  /\ threads["t2"].compare
  /\ threads["t2"].pc = "loop"
  /\ DOMAIN threads["t2"].results = {"BFS", "DFS"}

(* C13: compare_algorithms returns its results under the keys BFS, DFS, UCS
   and A*, and each of them is the result (success, path, cost, exploration
   order) the strategy returns when called alone with the same (start, goal):
   no run depends on the runs before it. *)
C13_CompareEqualsAlone ==
  /\ \A a \in DOMAIN results : SameOutcome(results[a], CallAlone(a, start, goal))
  /\ pc = "done" => DOMAIN results = {"BFS", "DFS", "UCS", "A*"}

C13_Witness ==
  /\ pc = "done"
  /\ results["BFS"].success
  /\ results["BFS"].path # results["UCS"].path
  /\ Len(results["A*"].exploration_order) < Len(results["UCS"].exploration_order)

(* C14: no step of a strategy or of compare_algorithms, in a search that
   succeeds or in one that fails, changes nodes, edges or coordinates. *)
C14_SearchLeavesGraph ==
  [][pc # "build" => (nodes' = nodes /\ edges' = edges /\ coordinates' = coordinates)]_vars

C14_Witness ==
  /\ pc = "done"
  /\ results["BFS"].success /\ results["DFS"].success
  /\ Len(results["DFS"].exploration_order) >= 3
  /\ \A n \in Elements(results["DFS"].exploration_order) : Len(edges[n]) >= 2

(* the connection list has been gone through *)
Constructed == pc # "build" \/ ci > Len(connections)

UnknownNode(c) == c[1] \notin nodes \/ c[2] \notin nodes

(* C15: once the connection list has been gone through, get_distance(a, b)
   equals get_distance(b, a) for all a and b, absent on both sides or the same
   weight, and no adjacency dict lists a neighbour twice; also when the list
   names the same unordered pair several times with different weights. *)
C15_SymmetricAndSimple ==
  Constructed =>
    /\ \A a \in nodes \cup {"Z"}, b \in nodes \cup {"Z"} : GetDistance(a, b) = GetDistance(b, a)
    /\ \A a \in nodes : \A i \in 1..Len(edges[a]), j \in 1..Len(edges[a]) :
          edges[a][i][1] = edges[a][j][1] => i = j

C15_Witness ==
  /\ pc = "build" /\ ci > Len(connections)
  /\ \E i \in 1..Len(connections), j \in 1..Len(connections) :
        /\ i < j
        /\ connections[i][1] = "A" /\ connections[i][2] = "B"
        /\ connections[j][1] = "B" /\ connections[j][2] = "A"
        /\ connections[i][3] # connections[j][3]
  /\ GetDistance("A", "B") # None

(* C16 as stated: construction does not complete when the connection list
   holds a connection that names a node absent from the node set. *)
C16_UnknownNodeIsRejected ==
  [][(pc = "build" /\ \E i \in 1..Len(connections) : UnknownNode(connections[i]))
       => pc' = "build"]_vars

(* C16: a connection that names a node absent from the node set is skipped:
   its iteration adds no edge and goes on to the next connection, the edges
   never name an unknown node, and construction completes when the list has
   been gone through. *)
C16_UnknownNodeIsSkipped ==
  [][pc = "build" =>
       /\ (ci <= Len(connections) /\ UnknownNode(connections[ci]))
             => (edges' = edges /\ ci' = ci + 1 /\ pc' = "build")
       /\ ci > Len(connections) => pc' = "idle"
       /\ DOMAIN edges' = nodes
       /\ \A a \in nodes : \A i \in 1..Len(edges'[a]) : edges'[a][i][1] \in nodes]_vars

C16_Witness ==
  /\ pc = "build" /\ ci > Len(connections)
  /\ Len(connections) >= 3
  /\ UnknownNode(connections[1])
  /\ ~UnknownNode(connections[2])
  /\ UnknownNode(connections[3])
  /\ GetDistance("A", "B") = connections[2][3]

IsEdge(a, b) == a \in nodes /\ \E i \in 1..Len(edges[a]) : edges[a][i][1] = b

Weight(a, b) == edges[a][CHOOSE i \in 1..Len(edges[a]) : edges[a][i][1] = b][2]

(* the weight of the first k - 1 hops of path *)
RECURSIVE WeightSum(_, _)
WeightSum(path, k) ==
  IF k < 2 THEN 0 ELSE WeightSum(path, k - 1) + Weight(path[k - 1], path[k])

(* C17: get_path_distance(path) is 0 for a path of fewer than two nodes, the
   sum of the weights of its consecutive pairs when each of them is an edge,
   and infinity when some consecutive pair is not an edge. *)
C17_PathDistance ==
  query.op = "get_path_distance" =>
    LET path == query.args[1]
    IN  query.value =
          IF Len(path) < 2 THEN 0
          ELSE IF \A i \in 1..(Len(path) - 1) : IsEdge(path[i], path[i + 1])
          THEN WeightSum(path, Len(path))
          ELSE Inf

C17_Witness ==
  /\ query.op = "get_path_distance"
  /\ Len(query.args[1]) = 3
  /\ query.args[1][1] # query.args[1][3]
  /\ query.value > 1 /\ query.value < Inf

(* C18: asked about a node that is not in the graph, get_neighbors returns
   the empty collection, get_distance returns None and is_valid_node returns
   false; and the iteration of a strategy that expands a node without
   neighbours records the node, adds nothing to the frontier and stays in the
   loop. *)
C18_UnknownNodeIsQuiet ==
  /\ [](/\ (query.op = "get_neighbors" /\ query.args[1] \notin nodes) => query.value = <<>>
        /\ (query.op = "get_distance" /\ (query.args[1] \notin nodes \/ query.args[2] \notin nodes))
              => query.value = None
        /\ (query.op = "is_valid_node" /\ query.args[1] \notin nodes) => query.value = FALSE)
  /\ [][(/\ pc = "loop"
          /\ frontier # <<>>
          /\ frontier[PopIndex(Algorithms[idx], frontier)].node \notin visited \cup {goal}
          /\ GetNeighbors(frontier[PopIndex(Algorithms[idx], frontier)].node) = <<>>)
         => /\ pc' = "loop"
            /\ frontier' = RemoveAt(frontier, PopIndex(Algorithms[idx], frontier))
            /\ exploration_order' =
                 Append(exploration_order, frontier[PopIndex(Algorithms[idx], frontier)].node)]_vars

C18_Witness ==
  /\ query.op = "get_distance"
  /\ query.args[1] \in nodes /\ query.args[2] \notin nodes
  /\ Len(edges[query.args[1]]) >= 2
  /\ query.value = None

(* C19: in the loop of uniform_cost_search the entry about to be popped, if
   its node is not yet visited, carries the least cost of any path from start
   to that node, which is at least the cost of every node expanded before;
   the nodes expanded so far are pairwise distinct, also while stale entries
   for them remain in the frontier, and their costs are non-decreasing. *)
C19_UCSPopsAtMinimum ==
  (pc = "loop" /\ Algorithms[idx] = "UCS") =>
    LET least == ShortestCost(start)
    IN  /\ frontier # <<>> =>
             LET cur == frontier[UCSMin(frontier)]
             IN  cur.node \notin visited =>
                   /\ cur.cost = least[cur.node]
                   /\ \A k \in 1..Len(exploration_order) :
                         least[exploration_order[k]] <= cur.cost
        /\ \A i \in 1..Len(exploration_order), j \in 1..Len(exploration_order) :
             /\ exploration_order[i] = exploration_order[j] => i = j
             /\ i < j => least[exploration_order[i]] <= least[exploration_order[j]]
        /\ visited = Elements(exploration_order)

C19_Witness ==
  /\ pc = "loop" /\ Algorithms[idx] = "UCS"
  /\ Len(exploration_order) >= 2
  /\ ShortestCost(start)[exploration_order[1]] < ShortestCost(start)[exploration_order[2]]
  /\ frontier # <<>>
  /\ frontier[UCSMin(frontier)].node \in visited
  /\ \E i \in 1..Len(frontier) : frontier[i].node \notin visited

(* the priority the frontier of the running strategy is keyed on *)
Priority(e) == IF Algorithms[idx] = "A*" THEN e.f ELSE e.cost

(* the step taken is the pop of frontier[i]: the entry was skipped as
   visited, returned as the goal, or expanded *)
Popped(i) ==
  LET e == frontier[i]
  IN  \/ /\ e.node \in visited
         /\ pc' = "loop"
         /\ frontier' = RemoveAt(frontier, i)
      \/ /\ e.node \notin visited /\ e.node = goal
         /\ pc' # "loop"
         /\ results'[Algorithms[idx]].success
         /\ results'[Algorithms[idx]].path = e.path
      \/ /\ e.node \notin visited /\ e.node # goal
         /\ pc' = "loop"
         /\ exploration_order' = Append(exploration_order, e.node)
         /\ Len(frontier') >= Len(frontier) - 1
         /\ SubSeq(frontier', 1, Len(frontier) - 1) = RemoveAt(frontier, i)

InPriorityLoop ==
  pc = "loop" /\ Algorithms[idx] \in {"UCS", "A*"} /\ frontier # <<>>

(* C20 as stated: the entry popped by uniform_cost_search and a_star_search
   has the least priority, and no entry inserted before it has the same
   priority. *)
C20_TiesAreFifo ==
  [][InPriorityLoop =>
       \E i \in 1..Len(frontier) :
         /\ Popped(i)
         /\ \A j \in 1..Len(frontier) :
              /\ Priority(frontier[i]) <= Priority(frontier[j])
              /\ j < i => Priority(frontier[j]) # Priority(frontier[i])]_vars

(* C20: the entry popped has the least priority; among entries of that
   priority it is one with the least accumulated cost, among those one with
   the least node name in string order, among those one with the least path
   in list order: the order of insertion plays no part. *)
C20_TiesByTupleOrder ==
  [][InPriorityLoop =>
       \E i \in 1..Len(frontier) :
         /\ Popped(i)
         /\ \A j \in 1..Len(frontier) :
              LET a == frontier[i]
                  b == frontier[j]
              IN  /\ Priority(a) <= Priority(b)
                  /\ Priority(a) = Priority(b) => a.cost <= b.cost
                  /\ (Priority(a) = Priority(b) /\ a.cost = b.cost)
                        => Rank[a.node] <= Rank[b.node]
                  /\ (Priority(a) = Priority(b) /\ a.cost = b.cost /\ a.node = b.node)
                        => ~PathLess(b.path, a.path)]_vars

C20_Witness ==
  /\ InPriorityLoop
  /\ \E i \in 1..Len(frontier), j \in 1..Len(frontier) :
        /\ i < j
        /\ Priority(frontier[i]) = Priority(frontier[j])
        /\ \A k \in 1..Len(frontier) : Priority(frontier[j]) <= Priority(frontier[k])
        /\ StrLess(frontier[j].node, frontier[i].node)
        /\ frontier[i].node \notin visited /\ frontier[j].node \notin visited

(* h(a) <= w(a, b) + h(b) on every edge and h(goal) = 0, for the heuristic
   towards the goal of the call, in fixed-point units *)
Consistent ==
  /\ EuclideanDistance(goal, goal) = 0
  /\ \A a \in nodes : \A i \in 1..Len(edges[a]) :
        EuclideanDistance(a, goal)
          <= edges[a][i][2] * HScale + EuclideanDistance(edges[a][i][1], goal)

(* C21: when the heuristic towards the goal is consistent on the graph and
   the goal can be reached from start, a_star_search succeeds with a path
   whose cost is the least cost of any path from start to goal. *)
C21_AStarOptimalIfConsistent ==
  ("A*" \in DOMAIN results /\ ValidQuery /\ Consistent
     /\ ShortestCost(start)[goal] # Inf) =>
    /\ results["A*"].success
    /\ results["A*"].cost = ShortestCost(start)[goal]
    /\ GetPathDistance(results["A*"].path) = ShortestCost(start)[goal]

C21_Witness ==
  /\ pc = "done"
  /\ ValidQuery /\ Consistent
  /\ EuclideanDistance(start, goal) > 0
  /\ results["A*"].success /\ Len(results["A*"].path) >= 3
  /\ Len(results["A*"].exploration_order) < Len(results["UCS"].exploration_order)

(* C22 as stated: the iteration of a_star_search that expands a node pushes
   an entry, and records its g, for exactly the neighbours that are not
   visited and have no recorded g strictly smaller than the new g; a
   recorded g never increases. *)
C22_PushUnlessSmallerG ==
  [][(pc = "loop" /\ Algorithms[idx] = "A*" /\ frontier # <<>>
        /\ frontier[AStarMin(frontier)].node \notin visited \cup {goal}) =>
       LET cur == frontier[AStarMin(frontier)]
           nbrs == GetNeighbors(cur.node)
           relaxed == SelectSeq(nbrs, LAMBDA p :
                        /\ p[1] \notin visited \cup {cur.node}
                        /\ ~(p[1] \in DOMAIN g_costs /\ g_costs[p[1]] < cur.cost + p[2]))
           pushed == SubSeq(frontier', Len(frontier), Len(frontier'))
       IN  /\ Len(pushed) = Len(relaxed)
           /\ \A k \in 1..Len(relaxed) :
                /\ pushed[k].node = relaxed[k][1]
                /\ pushed[k].cost = cur.cost + relaxed[k][2]
                /\ pushed[k].path = Append(cur.path, relaxed[k][1])
                /\ g_costs'[relaxed[k][1]] = cur.cost + relaxed[k][2]
           /\ \A n \in DOMAIN g_costs : n \in DOMAIN g_costs' /\ g_costs'[n] <= g_costs[n]]_vars

NoRepeat(s) == \A i \in 1..Len(s), j \in 1..Len(s) : s[i] = s[j] => i = j

(* C23: in every strategy the visited set is exactly the set of nodes popped
   and expanded so far, so a node waiting in the frontier, even several
   times, is not visited; no node occurs twice in an exploration order, and
   num_nodes_explored of every result is the length of its exploration
   order. *)
C23_VisitedAtPop ==
  /\ pc = "loop" => (visited = Elements(exploration_order) /\ NoRepeat(exploration_order))
  /\ \A a \in DOMAIN results :
        /\ NoRepeat(results[a].exploration_order)
        /\ results[a].num_nodes_explored = Len(results[a].exploration_order)

C23_Witness ==
  /\ pc = "loop"
  /\ Len(exploration_order) >= 2
  /\ \E i \in 1..Len(frontier), j \in 1..Len(frontier) :
        i < j /\ frontier[i].node = frontier[j].node /\ frontier[i].node \notin visited
  /\ \A a \in DOMAIN results : Len(results[a].exploration_order) >= 3

(* the fewest edges of a path from the nodes of S to g, k edges being spent *)
RECURSIVE HopsFrom(_, _, _)
HopsFrom(S, g, k) ==
  IF g \in S THEN k
  ELSE LET T == S \cup UNION {NeighborSet(n) : n \in S}
       IN  IF T = S THEN Inf ELSE HopsFrom(T, g, k + 1)

(* C24: for a reachable goal breadth_first_search succeeds with a path that
   has the fewest edges of any path from start to goal, whatever the order
   in which the neighbours are enumerated; the queue holds paths of
   non-decreasing length, and the path returned is the path of the entry
   dequeued when the goal is first taken from the queue. *)
C24_BFSFewestEdges ==
  /\ [](("BFS" \in DOMAIN results /\ ValidQuery /\ goal \in Component(start))
          => (/\ results["BFS"].success
              /\ Len(results["BFS"].path) - 1 = HopsFrom({start}, goal, 0)))
  /\ []((pc = "loop" /\ Algorithms[idx] = "BFS")
          => \A i \in 1..Len(frontier), j \in 1..Len(frontier) :
               i < j => Len(frontier[i].path) <= Len(frontier[j].path))
  /\ [][(pc = "loop" /\ Algorithms[idx] = "BFS" /\ frontier # <<>>
           /\ Head(frontier).node = goal)
          => (pc' # "loop" /\ results'["BFS"].success
              /\ results'["BFS"].path = Head(frontier).path)]_vars

C24_Witness ==
  /\ pc = "done"
  /\ results["BFS"].success /\ Len(results["BFS"].path) >= 2
  /\ Len(results["DFS"].path) > Len(results["BFS"].path)
  /\ Len(results["UCS"].path) > Len(results["BFS"].path)

(* the neighbours of n, in enumeration order, that are not in vis *)
UnvisitedNeighbors(n, vis) ==
  SelectSeq(GetNeighbors(n), LAMBDA e : e[1] \notin vis)

(* every node of the order o but the last is followed by its first neighbour,
   in enumeration order, that was not visited when it was expanded *)
NaturalOrder(o) ==
  \A i \in 1..(Len(o) - 1) :
     LET open == UnvisitedNeighbors(o[i], Elements(SubSeq(o, 1, i)))
     IN  open # <<>> => o[i + 1] = open[1][1]

(* C25: depth_first_search pushes the neighbours in reverse enumeration
   order: once a node n is expanded and has a neighbour not yet visited, the
   top of the stack is the entry of the first such neighbour in enumeration
   order, so that neighbour is the next node expanded. *)
C25_DFSNaturalOrder ==
  /\ (pc = "loop" /\ Algorithms[idx] = "DFS" /\ exploration_order # <<>>)
        => LET n == exploration_order[Len(exploration_order)]
               open == UnvisitedNeighbors(n, visited)
           IN  /\ NaturalOrder(exploration_order)
               /\ open # <<>> =>
                    /\ frontier # <<>>
                    /\ frontier[Len(frontier)].node = open[1][1]
                    /\ LET top == frontier[Len(frontier)].path
                       IN  Len(top) >= 2 /\ top[Len(top) - 1] = n
  /\ "DFS" \in DOMAIN results => NaturalOrder(results["DFS"].exploration_order)

C25_Witness ==
  /\ pc = "done"
  /\ results["DFS"].success
  /\ Len(results["DFS"].exploration_order) >= 3
  /\ \E i \in 1..(Len(results["DFS"].exploration_order) - 1) :
        LET o == results["DFS"].exploration_order
        IN  Len(UnvisitedNeighbors(o[i], Elements(SubSeq(o, 1, i)))) >= 2

(* C26: a successful result for start # goal has an exploration order that
   begins with start and ends with goal, a path whose nodes all occur in the
   exploration order, and a path in which no node occurs twice. *)
C26_SuccessfulResultShape ==
  \A a \in DOMAIN results :
     (results[a].success /\ start # goal)
        => LET o == results[a].exploration_order
               p == results[a].path
           IN  /\ o # <<>> /\ o[1] = start /\ o[Len(o)] = goal
               /\ Elements(p) \subseteq Elements(o)
               /\ NoRepeat(p)

C26_Witness ==
  /\ pc = "done" /\ start # goal
  /\ \A a \in DOMAIN results : results[a].success /\ Len(results[a].path) >= 3
  /\ \E a \in DOMAIN results :
        Len(results[a].exploration_order) > Len(results[a].path)

(* C27: once every call made by the threads has returned, trace_enabled has
   the value it had before the first of them started (TRUE, the value set at
   construction). *)
C27_TraceRestored ==
  (\A t \in Threads : threads[t].pc \in {"idle", "done"}) => trace_enabled = TRUE

(* a request of the HTTP layer for algorithm a has returned, for two
   different nodes of which the second can be reached from the first *)
HttpReturned(a) ==
  /\ http.pc = "done" /\ http.algorithm = a
  /\ http.start # http.goal
  /\ http.start \in nodes /\ http.goal \in Component(http.start)

(* C28: for a goal reachable from a different start, bfs_pathfinding of the
   HTTP layer finds a path, and it is the path breadth_first_search returns
   on the graph built from the same connection list. *)
C28_HttpBfsSamePath ==
  HttpReturned("BFS")
     => /\ http.result[1].found
        /\ CallAlone("BFS", http.start, http.goal).success
        /\ http.result[1].path = CallAlone("BFS", http.start, http.goal).path

C28_Witness ==
  /\ HttpReturned("BFS")
  /\ Len(http.result[1].path) >= 3
  /\ Len(CallAlone("BFS", http.start, http.goal).exploration_order) > Len(http.steps) + 1

(* C29: for a goal reachable from a different start, dfs_pathfinding of the
   HTTP layer returns the path depth_first_search returns on the graph built
   from the same connection list, and visits the nodes in the order
   depth_first_search explores them. *)
C29_HttpDfsSamePathAndOrder ==
  HttpReturned("DFS")
     => /\ http.result[1].found
        /\ http.result[1].path = CallAlone("DFS", http.start, http.goal).path
        /\ http.steps = CallAlone("DFS", http.start, http.goal).exploration_order

(* C30: the custom paths held in SAVED_PATHS have pairwise distinct ids. *)
C30_DistinctIds ==
  \A i \in 1..Len(SAVED_PATHS), j \in 1..Len(SAVED_PATHS) :
     SAVED_PATHS[i][2].id = SAVED_PATHS[j][2].id => i = j

====
